---- MODULE Spec2Model ----
(***************************************************************************)
(* Model of the repository-inspection toolbox of different_agent:          *)
(* git_tools.py (git subprocess tools, analyzed-commit counter) and        *)
(* github_tools.py (hosted issue/PR client, analyzed-PR counter).          *)
(*                                                                         *)
(* One action per tool call.  A tool call is synchronous, so an action is  *)
(* the whole handler: validation, repository check, subprocesses or HTTP   *)
(* requests, parsing, truncation and the recording into the counters.      *)
(* What the outside world answers (git exit codes and output, GitHub       *)
(* responses) is an input of the action, drawn from small sets.            *)
(*                                                                         *)
(* Text is a sequence of characters; a truncation marker is one character  *)
(* of its own, so that joining and splitting lines are real computations.  *)
(***************************************************************************)
EXTENDS Integers, Sequences, FiniteSets, TLC

VARIABLES
    ANALYZED_COMMITS,   \* git_tools._ANALYZED_COMMITS
    ANALYZED_PRS,       \* github_tools._ANALYZED_PRS
    call,               \* the last tool call: its name, arguments and what the world answered
    result,             \* how that call ended: a returned value or a raised exception
    subprocs,           \* the subprocesses that call started, in order
    requests,           \* the HTTP requests that call issued, in order
    seenCommits,        \* history: commits git_show_commit returned for since the last reset
    seenPRs,            \* history: triples handed to _record_analyzed_pr and accepted since the last reset
    threads             \* overlapping tool calls: for each worker thread, the keys its call has still to record

vars ==
    <<ANALYZED_COMMITS, ANALYZED_PRS, call, result, subprocs, requests, seenCommits, seenPRs,
      threads>>

----------------------------------------------------------------------------
(* Bounds *)

MaxLen == 3         \* longest text git prints (characters)
MaxN == 2           \* largest value of a bounded-size parameter
MaxPr == 3          \* largest pull-request number
MaxItems == 2       \* longest list a response or a search output carries
MaxPages == 2       \* most pages of files a pull request has
MaxName == 2        \* longest owner or repository name (pieces)
MaxThreads == 2     \* most tool calls running at the same time

----------------------------------------------------------------------------
(* Text *)

NL == "\n"
US == "<US>"          \* the unit separator %x1f
RS == "<RS>"          \* the record separator %x1e
TAB == "\t"

PATCH_MARKER == "[patch truncated]"
FILE_MARKER == "[file truncated]"
DIFF_MARKER == "[diff truncated]"

Chars == {"a", "b", NL}

Texts == UNION {[1..n -> Chars] : n \in 0..MaxLen}

\* what git prints for a diff: nothing, or lines each ended by a newline
DiffTexts == {t \in Texts : t = <<>> \/ t[Len(t)] = NL}

\* the least index of sep in s, 0 when absent
IndexOf(s, sep) ==
    IF \E i \in 1..Len(s) : s[i] = sep
    THEN CHOOSE i \in 1..Len(s) : s[i] = sep /\ \A j \in 1..(i - 1) : s[j] # sep
    ELSE 0

\* str.split(sep): the pieces between separators, an empty text giving one empty piece
RECURSIVE split(_, _)
split(s, sep) ==
    LET i == IndexOf(s, sep)
    IN  IF i = 0 THEN <<s>>
        ELSE <<SubSeq(s, 1, i - 1)>> \o split(SubSeq(s, i + 1, Len(s)), sep)

\* str.split(sep, 1)
split1(s, sep) ==
    LET i == IndexOf(s, sep)
    IN  IF i = 0 THEN <<s>>
        ELSE <<SubSeq(s, 1, i - 1), SubSeq(s, i + 1, Len(s))>>

\* str.split(sep, 2)
split2(s, sep) ==
    LET first == split1(s, sep)
    IN  IF Len(first) = 1 THEN first ELSE <<first[1]>> \o split1(first[2], sep)

\* str.splitlines(): lines without their newline, no empty piece after a final newline
RECURSIVE splitlines(_)
splitlines(s) ==
    IF s = <<>> THEN <<>>
    ELSE LET i == IndexOf(s, NL)
         IN  IF i = 0 THEN <<s>>
             ELSE <<SubSeq(s, 1, i - 1)>> \o splitlines(SubSeq(s, i + 1, Len(s)))

\* sep.join(lines)
RECURSIVE join(_, _)
join(sep, lines) ==
    IF lines = <<>> THEN <<>>
    ELSE IF Len(lines) = 1 THEN lines[1]
    ELSE lines[1] \o <<sep>> \o join(sep, Tail(lines))

\* lines[:n]
Take(s, n) == SubSeq(s, 1, IF n < Len(s) THEN n ELSE Len(s))

\* str.strip(): leading and trailing whitespace removed
Whitespace == {NL, TAB, " ", US, RS}

RECURSIVE lstrip(_)
lstrip(s) == IF s # <<>> /\ Head(s) \in Whitespace THEN lstrip(Tail(s)) ELSE s

RECURSIVE rstrip(_)
rstrip(s) ==
    IF s # <<>> /\ s[Len(s)] \in Whitespace THEN rstrip(SubSeq(s, 1, Len(s) - 1)) ELSE s

strip(s) == rstrip(lstrip(s))

----------------------------------------------------------------------------
(* How a call ends *)

Returned(v) == [kind |-> "return", exc |-> "", val |-> v]
Raised(e) == [kind |-> "raise", exc |-> e, val |-> <<>>]

\* the values a bounded-size parameter is called with
BoundVals == 0..MaxN
DayVals == 0..1

\* an optional integer: None, or the integer
None == <<>>
Some(n) == <<n>>

----------------------------------------------------------------------------
(* The repositories on disk *)

RepoPaths == {"repo", "not_repo"}

\* os.path.isdir(os.path.join(repo_path, ".git"))
HasGitDir(repo_path) == repo_path = "repo"

\* the commits of the repository, newest first
History == <<"c2", "c1">>

\* what a revision argument names; "bad" names nothing
Revs == {"c1", "c2", "HEAD", "bad"}
KnownRevs == {"c1", "c2", "HEAD"}
Resolve(rev) == IF rev = "HEAD" THEN History[1] ELSE rev

\* body is what %b expands to: nothing, or the lines of the body, each ended by a
\* newline; the body of c2 has two lines, the second one holding a tab
CommitObj(id) ==
    IF id = "c1"
    THEN [sha |-> <<"c1">>, author |-> <<"Test">>, date |-> <<"d1">>, subject |-> <<"initial">>,
          body |-> <<>>, files |-> <<[status |-> <<"A">>, path |-> <<"f1">>]>>]
    ELSE [sha |-> <<"c2">>, author |-> <<"Test">>, date |-> <<"d2">>, subject |-> <<"fix">>,
          body |-> <<"w", NL, "X", TAB, "n", NL>>,
          files |-> <<[status |-> <<"M">>, path |-> <<"f1">>]>>]

\* git's exit status for a command on a revision: an unknown one always fails,
\* a known one fails only when the environment does
GitExits(rev) == IF rev \in KnownRevs THEN {0, 128} ELSE {128}

----------------------------------------------------------------------------
(* Evidence counters *)

\* _record_analyzed_commit: the set after recording sha
RecordDropsOthers(set, sha) == IF sha # <<>> THEN {sha} ELSE set
record_analyzed_commit(set, sha) == IF sha # <<>> THEN set \cup {sha} ELSE set

\* _record_analyzed_pr: the set after recording (owner, repo, number), number optional
RecordPrOverwrites(set, owner, repo, number) ==
    IF owner = "" \/ repo = "" \/ number = None THEN set
    ELSE {<<owner, repo, number[1]>>}
record_analyzed_pr(set, owner, repo, number) ==
    IF owner = "" \/ repo = "" \/ number = None THEN set
    ELSE set \cup {<<owner, repo, number[1]>>}

get_analyzed_commit_count == Cardinality(ANALYZED_COMMITS)
get_analyzed_pr_count == Cardinality(ANALYZED_PRS)

----------------------------------------------------------------------------
(* Command runner *)

\* _ensure_git_repo: TRUE when it returns, FALSE when it raises ValueError
ensure_git_repo(repo_path) == HasGitDir(repo_path)

\* _run_git: the repository check, then the subprocess with check=True
run_git(repo_path, cmd, exit, out) ==
    IF ~ensure_git_repo(repo_path)
    THEN [exc |-> "ValueError", procs |-> <<>>, stdout |-> <<>>]
    ELSE IF exit # 0
    THEN [exc |-> "CalledProcessError", procs |-> <<cmd>>, stdout |-> <<>>]
    ELSE [exc |-> "", procs |-> <<cmd>>, stdout |-> out]

\* no call is in progress: tools are called one at a time, each call blocking
NoCall == [tool |-> "none"]
Idle == call = NoCall

\* a call ends: what it was, how it ended, what it ran
Finish(c, r, procs, reqs) ==
    /\ call' = c
    /\ result' = r
    /\ subprocs' = procs
    /\ requests' = reqs
    /\ UNCHANGED threads

CountersUnchanged == UNCHANGED <<ANALYZED_COMMITS, ANALYZED_PRS, seenCommits, seenPRs>>

----------------------------------------------------------------------------
(* git_show_commit *)

\* what "git show --pretty=format:%H%x1f%an%x1f%ad%x1f%s%x1f%b --name-status" prints
RECURSIVE StatusLines(_)
StatusLines(files) ==
    IF files = <<>> THEN <<>>
    ELSE Head(files).status \o <<TAB>> \o Head(files).path \o <<NL>> \o StatusLines(Tail(files))

MetaStdout(c) ==
    c.sha \o <<US>> \o c.author \o <<US>> \o c.date \o <<US>> \o c.subject \o <<US>> \o c.body
        \o <<NL>> \o StatusLines(c.files)

\* the loop over file_lines
RECURSIVE files_changed(_)
files_changed(file_lines) ==
    IF file_lines = <<>> THEN <<>>
    ELSE LET line == strip(Head(file_lines))
             parts == split1(line, TAB)
             rest == files_changed(Tail(file_lines))
         IN  IF line = <<>> THEN rest
             ELSE IF Len(parts) # 2 THEN rest
             ELSE <<[status |-> parts[1], path |-> parts[2]]>> \o rest

\* the truncation of the patch: <<patch, truncated>>
TruncatePatchOffByOne(patch, max_patch_lines) ==
    LET patch_lines == splitlines(patch)
    IN  IF Len(patch_lines) >= max_patch_lines
        THEN <<join(NL, Take(patch_lines, max_patch_lines)) \o <<NL, NL, PATCH_MARKER>>, TRUE>>
        ELSE <<patch, FALSE>>
truncate_patch(patch, max_patch_lines) ==
    LET patch_lines == splitlines(patch)
    IN  IF Len(patch_lines) > max_patch_lines
        THEN <<join(NL, Take(patch_lines, max_patch_lines)) \o <<NL, NL, PATCH_MARKER>>, TRUE>>
        ELSE <<patch, FALSE>>

git_show_commit ==
    /\ Idle
    /\ \E repo_path \in RepoPaths, sha \in Revs, max_patch_lines \in BoundVals :
        LET c0 == [tool |-> "git_show_commit", repo_path |-> repo_path, sha |-> sha,
                   max_patch_lines |-> max_patch_lines]
        IN  IF max_patch_lines <= 0
            THEN Finish(c0, Raised("ValueError"), <<>>, <<>>) /\ CountersUnchanged
            ELSE \E metaExit \in GitExits(sha) :
                LET meta == run_git(repo_path, "show", metaExit,
                                    MetaStdout(CommitObj(Resolve(sha))))
                    lines == splitlines(meta.stdout)
                    fields == split(Head(lines), US)
                IN  IF meta.exc # ""
                    THEN Finish(c0, Raised(meta.exc), meta.procs, <<>>) /\ CountersUnchanged
                    ELSE IF lines = <<>> \/ Len(fields) # 5
                    THEN Finish(c0, Raised("ValueError"), meta.procs, <<>>) /\ CountersUnchanged
                    ELSE \E patchExit \in GitExits(sha) :
                        IF patchExit # 0
                        THEN Finish(c0, Raised(run_git(repo_path, "show", patchExit, <<>>).exc),
                                    meta.procs \o <<"show">>, <<>>)
                             /\ CountersUnchanged
                        ELSE \E diff \in DiffTexts :
                            LET p == run_git(repo_path, "show", patchExit, diff)
                                t == truncate_patch(p.stdout, max_patch_lines)
                            IN  /\ Finish(c0 @@ [diff |-> diff],
                                        Returned([sha |-> fields[1], author |-> fields[2],
                                                  date |-> fields[3], subject |-> fields[4],
                                                  body |-> fields[5],
                                                  files |-> files_changed(Tail(lines)),
                                                  patch |-> t[1], patch_truncated |-> t[2]]),
                                        meta.procs \o p.procs, <<>>)
                                /\ ANALYZED_COMMITS' = record_analyzed_commit(ANALYZED_COMMITS, fields[1])
                                /\ seenCommits' = seenCommits \cup {CommitObj(Resolve(sha)).sha}
                                /\ UNCHANGED <<ANALYZED_PRS, seenPRs>>

\* reset_analyzed_commit_count
reset_analyzed_commit_count ==
    /\ Idle
    /\ ANALYZED_COMMITS' = {}
    /\ seenCommits' = {}
    /\ Finish([tool |-> "reset_analyzed_commit_count"], Returned(<<>>), <<>>, <<>>)
    /\ UNCHANGED <<ANALYZED_PRS, seenPRs>>

----------------------------------------------------------------------------
(* git_show_file *)

\* the files of the repository at HEAD; "missing" is not one of them
FilePaths == {"file.txt", "missing.txt"}

\* the refs a file is read at; "bad" names nothing
FileRefs == {"HEAD", "bad"}

\* git show's exit status for ref:file_path run in repo_path: it fails outside a
\* repository and for a ref or a path that does not exist, and otherwise when the
\* environment does
ShowFileExits(repo_path, file_path, ref) ==
    IF HasGitDir(repo_path) /\ file_path = "file.txt" /\ ref = "HEAD" THEN {0, 128} ELSE {128}

\* what a failing git show leaves on stderr: nothing, white space, or a message
Stderrs == {<<>>, <<" ", NL>>, <<"f", NL>>}

\* (completed.stderr or "").strip() or "git show failed"
ShowErrorIsStderr(stderr) == strip(stderr)
show_error(stderr) == IF strip(stderr) # <<>> THEN strip(stderr) ELSE <<"git show failed">>

\* lines = lines[:max_lines] when there are more: <<lines, truncated>>
TruncateLinesKeepsOneMore(lines, max_lines) ==
    IF Len(lines) > max_lines + 1 THEN <<Take(lines, max_lines + 1), TRUE>> ELSE <<lines, FALSE>>
truncate_lines(lines, max_lines) ==
    IF Len(lines) > max_lines THEN <<Take(lines, max_lines), TRUE>> ELSE <<lines, FALSE>>

\* "\n".join(lines) + ("\n\n[... truncated]" if truncated else "")
with_marker(t, marker) == join(NL, t[1]) \o (IF t[2] THEN <<NL, NL, marker>> ELSE <<>>)

git_show_file ==
    /\ Idle
    /\ \E repo_path \in RepoPaths, file_path \in FilePaths, ref \in FileRefs,
          max_lines \in BoundVals :
        LET c0 == [tool |-> "git_show_file", repo_path |-> repo_path, file_path |-> file_path,
                   ref |-> ref, max_lines |-> max_lines]
        IN  /\ CountersUnchanged
            /\ IF max_lines <= 0
               THEN Finish(c0, Raised("ValueError"), <<>>, <<>>)
               ELSE \E returncode \in ShowFileExits(repo_path, file_path, ref) :
                   IF returncode # 0
                   THEN \E stderr \in Stderrs :
                       Finish(c0 @@ [stderr |-> stderr],
                              Returned([error |-> show_error(stderr)]), <<"show">>, <<>>)
                   ELSE \E stdout \in Texts :
                       LET t == truncate_lines(splitlines(stdout), max_lines)
                       IN  Finish(c0 @@ [stdout |-> stdout],
                                  Returned([ref |-> ref, path |-> file_path,
                                            content |-> with_marker(t, FILE_MARKER),
                                            truncated |-> t[2]]),
                                  <<"show">>, <<>>)

----------------------------------------------------------------------------
(* git_diff *)

git_diff ==
    /\ Idle
    /\ \E repo_path \in RepoPaths, ref_a \in {"c1", "bad"}, max_lines \in BoundVals :
        LET c0 == [tool |-> "git_diff", repo_path |-> repo_path, ref_a |-> ref_a,
                   ref_b |-> "HEAD", max_lines |-> max_lines]
        IN  /\ CountersUnchanged
            /\ IF max_lines <= 0
               THEN Finish(c0, Raised("ValueError"), <<>>, <<>>)
               ELSE \E exit \in GitExits(ref_a) :
                   LET failed == run_git(repo_path, "diff", exit, <<>>)
                   IN  IF failed.exc # ""
                       THEN Finish(c0, Raised(failed.exc), failed.procs, <<>>)
                       ELSE \E stdout \in DiffTexts :
                           LET out == run_git(repo_path, "diff", exit, stdout)
                               t == truncate_lines(splitlines(out.stdout), max_lines)
                           IN  Finish(c0 @@ [stdout |-> stdout],
                                      Returned([ref_a |-> ref_a, ref_b |-> "HEAD",
                                                diff |-> with_marker(t, DIFF_MARKER),
                                                truncated |-> t[2]]),
                                      out.procs, <<>>)

----------------------------------------------------------------------------
(* git_recent_commits *)

\* "%H%x1f%an%x1f%ad%x1f%s%x1e"
RecentFmt(c) == c.sha \o <<US>> \o c.author \o <<US>> \o c.date \o <<US>> \o c.subject \o <<RS>>

\* "%H%x1f%s%x1f%ad%x1e"
SearchFmt(c) == c.sha \o <<US>> \o c.subject \o <<US>> \o c.date \o <<RS>>

\* what "git log --pretty=format:<fmt>" prints for the commits: the formatted
\* commits with a newline between them
RECURSIVE LogStdout(_, _)
LogStdout(commits, fmt) ==
    IF commits = <<>> THEN <<>>
    ELSE (IF fmt = "recent" THEN RecentFmt(Head(commits)) ELSE SearchFmt(Head(commits)))
         \o (IF Len(commits) > 1 THEN <<NL>> ELSE <<>>)
         \o LogStdout(Tail(commits), fmt)

\* the commit objects of ids
Commits(ids) == [i \in 1..Len(ids) |-> CommitObj(ids[i])]

\* the subject lines a commit can carry: plain, with a colon and a pipe, empty (a
\* commit made with --allow-empty-message), or holding the unit separator itself
Subjects == {<<"fix">>, <<"a", ":", "|">>, <<>>, <<"a", US, "b">>}

\* the commits git log walks: those of ids, the newest one carrying subject
Logged(ids, subject) ==
    [i \in 1..Len(ids) |->
        IF i = 1 THEN [CommitObj(ids[i]) EXCEPT !.subject = subject] ELSE CommitObj(ids[i])]

\* the loop over out.split("\x1e"): the fields of the records that are not blank and
\* split into nfields fields
RECURSIVE parse_records(_, _)
parse_records(records, nfields) ==
    IF records = <<>> THEN <<>>
    ELSE LET record == strip(Head(records))
             parts == split(record, US)
             rest == parse_records(Tail(records), nfields)
         IN  IF record = <<>> \/ Len(parts) # nfields THEN rest ELSE <<parts>> \o rest

\* "sha, author, date, subject = record.split(...)" raises ValueError for a record
\* that is not blank and does not split into nfields fields
unpack_raises(records, nfields) ==
    \E i \in 1..Len(records) :
        strip(records[i]) # <<>> /\ Len(split(strip(records[i]), US)) # nfields

git_recent_commits ==
    /\ Idle
    /\ \E repo_path \in RepoPaths, since_days \in BoundVals, max_count \in BoundVals :
        LET c0 == [tool |-> "git_recent_commits", repo_path |-> repo_path,
                   since_days |-> since_days, max_count |-> max_count]
        IN  /\ CountersUnchanged
            /\ IF since_days <= 0 \/ max_count <= 0
               THEN Finish(c0, Raised("ValueError"), <<>>, <<>>)
               ELSE \E exit \in {0, 128}, inWindow \in 0..Len(History), subject \in Subjects :
                   LET ids == Take(Take(History, inWindow), max_count)
                       logged == Logged(ids, subject)
                       out == run_git(repo_path, "log", exit, LogStdout(logged, "recent"))
                       records == split(out.stdout, RS)
                       parsed == parse_records(records, 4)
                   IN  IF out.exc # ""
                       THEN Finish(c0, Raised(out.exc), out.procs, <<>>)
                       ELSE IF unpack_raises(records, 4)
                       THEN Finish(c0 @@ [ids |-> ids, logged |-> logged],
                                   Raised("ValueError"), out.procs, <<>>)
                       ELSE Finish(c0 @@ [ids |-> ids, logged |-> logged],
                                   Returned([i \in 1..Len(parsed) |->
                                       [sha |-> parsed[i][1], author |-> parsed[i][2],
                                        date |-> parsed[i][3], subject |-> parsed[i][4]]]),
                                   out.procs, <<>>)

----------------------------------------------------------------------------
(* git_log_search *)

\* the commits whose message matches the pattern, newest first
RECURSIVE Matching(_, _)
Matching(ids, pattern) ==
    IF ids = <<>> THEN <<>>
    ELSE (IF CommitObj(Head(ids)).subject = <<pattern>> \/ pattern = "" THEN <<Head(ids)>> ELSE <<>>)
         \o Matching(Tail(ids), pattern)

git_log_search ==
    /\ Idle
    /\ \E repo_path \in RepoPaths, pattern \in {"", "initial", "zzz"}, max_count \in BoundVals :
        LET c0 == [tool |-> "git_log_search", repo_path |-> repo_path, pattern |-> pattern,
                   max_count |-> max_count]
        IN  /\ CountersUnchanged
            /\ IF max_count <= 0
               THEN Finish(c0, Raised("ValueError"), <<>>, <<>>)
               ELSE \E exit \in {0, 128} :
                   LET ids == Take(Matching(History, pattern), max_count)
                       out == run_git(repo_path, "log", exit, LogStdout(Commits(ids), "search"))
                       parsed == parse_records(split(out.stdout, RS), 3)
                   IN  IF out.exc # ""
                       THEN Finish(c0, Raised(out.exc), out.procs, <<>>)
                       ELSE Finish(c0 @@ [ids |-> ids],
                                   Returned([i \in 1..Len(parsed) |->
                                       [sha |-> parsed[i][1], subject |-> parsed[i][2],
                                        date |-> parsed[i][3]]]),
                                   out.procs, <<>>)

----------------------------------------------------------------------------
(* git_ls_files *)

\* the name of the i-th tracked file
FileName(i) == [j \in 1..i |-> "a"]

\* what "git ls-files" prints for n tracked files
RECURSIVE LsStdout(_, _)
LsStdout(i, n) == IF i > n THEN <<>> ELSE FileName(i) \o <<NL>> \o LsStdout(i + 1, n)

\* the loop over out.splitlines(), which stops once max_files are collected
RECURSIVE collect_files(_, _, _)
collect_files(lines, files, max_files) ==
    IF lines = <<>> THEN files
    ELSE LET line == strip(Head(lines))
         IN  IF line = <<>> THEN collect_files(Tail(lines), files, max_files)
             ELSE IF Len(files) + 1 >= max_files THEN Append(files, line)
             ELSE collect_files(Tail(lines), Append(files, line), max_files)

git_ls_files ==
    /\ Idle
    /\ \E repo_path \in RepoPaths, max_files \in BoundVals :
        LET c0 == [tool |-> "git_ls_files", repo_path |-> repo_path, path_prefix |-> "",
                   max_files |-> max_files]
        IN  /\ CountersUnchanged
            /\ IF max_files <= 0
               THEN Finish(c0, Raised("ValueError"), <<>>, <<>>)
               ELSE \E exit \in {0, 128}, tracked \in 0..(MaxN + 1) :
                   LET out == run_git(repo_path, "ls-files", exit, LsStdout(1, tracked))
                   IN  IF out.exc # ""
                       THEN Finish(c0, Raised(out.exc), out.procs, <<>>)
                       ELSE Finish(c0 @@ [tracked |-> tracked],
                                   Returned(collect_files(splitlines(out.stdout), <<>>, max_files)),
                                   out.procs, <<>>)

----------------------------------------------------------------------------
(* git_grep *)

\* the lines "git grep -n" prints: path:line:text, the text free to hold colons, the
\* path too (a tracked file named "p:q"); and a line that holds no colon
GrepLines ==
    {<<"p", ":", "7", ":", "t">>, <<"p", ":", "8", ":", "t", ":", "t">>,
     <<"p", ":", "q", ":", "7", ":", "t">>, <<"x">>}

GrepOutputs == UNION {[1..n -> GrepLines] : n \in 1..MaxItems}

\* int(line_no)
IsInt(text) == text \in {<<"7">>, <<"8">>}
int(text) == IF text = <<"7">> THEN 7 ELSE 8

\* the loop over completed.stdout.splitlines(), which stops once max_matches are collected
RECURSIVE collect_matches(_, _, _)
collect_matches(lines, matches, max_matches) ==
    IF lines = <<>> THEN matches
    ELSE LET parts == split2(Head(lines), ":")
         IN  IF Len(parts) # 3 THEN collect_matches(Tail(lines), matches, max_matches)
             ELSE LET m == [path |-> parts[1], line |-> int(parts[2]), text |-> parts[3]]
                  IN  IF Len(matches) + 1 >= max_matches THEN Append(matches, m)
                      ELSE collect_matches(Tail(lines), Append(matches, m), max_matches)

\* int(line_no) raises ValueError on a line the loop reaches
RECURSIVE int_raises(_, _, _)
int_raises(lines, collected, max_matches) ==
    IF lines = <<>> THEN FALSE
    ELSE LET parts == split2(Head(lines), ":")
         IN  IF Len(parts) # 3 THEN int_raises(Tail(lines), collected, max_matches)
             ELSE IF ~IsInt(parts[2]) THEN TRUE
             ELSE IF collected + 1 >= max_matches THEN FALSE
             ELSE int_raises(Tail(lines), collected + 1, max_matches)

\* git grep's exit status: 1 when nothing matches, 128 outside a repository
GrepExits(repo_path) == IF HasGitDir(repo_path) THEN {0, 1, 128} ELSE {128}

\* what the exit status means: returncode == 1 is "no match", any other non-zero
\* status is a failure
GrepFailureIsNoMatch(returncode) == IF returncode # 0 THEN "no match" ELSE "matched"
grep_status(returncode) ==
    IF returncode = 1 THEN "no match"
    ELSE IF returncode # 0 THEN "failed"
    ELSE "matched"

git_grep ==
    /\ Idle
    /\ \E repo_path \in RepoPaths, max_matches \in BoundVals :
        LET c0 == [tool |-> "git_grep", repo_path |-> repo_path, pattern |-> "t",
                   max_matches |-> max_matches]
        IN  /\ CountersUnchanged
            /\ IF max_matches <= 0
               THEN Finish(c0, Raised("ValueError"), <<>>, <<>>)
               ELSE \E returncode \in GrepExits(repo_path) :
                   IF grep_status(returncode) = "no match"
                   THEN Finish(c0 @@ [returncode |-> returncode], Returned(<<>>), <<"grep">>, <<>>)
                   ELSE IF grep_status(returncode) = "failed"
                   THEN Finish(c0 @@ [returncode |-> returncode], Raised("RuntimeError"),
                               <<"grep">>, <<>>)
                   ELSE \E output \in GrepOutputs :
                       LET stdout == join(NL, output) \o <<NL>>
                           matches == collect_matches(splitlines(stdout), <<>>, max_matches)
                       IN  IF int_raises(splitlines(stdout), 0, max_matches)
                           THEN Finish(c0 @@ [returncode |-> 0, output |-> output],
                                       Raised("ValueError"), <<"grep">>, <<>>)
                           ELSE Finish(c0 @@ [returncode |-> 0, output |-> output],
                                       Returned(matches), <<"grep">>, <<>>)

----------------------------------------------------------------------------
(* ast_grep *)

\* shutil.which("ast-grep") or shutil.which("sg"); "" when neither is installed
Binaries == {"", "ast-grep", "sg"}

\* the loop over the parsed matches, which stops once max_matches are collected
ast_matches(n, max_matches) ==
    [i \in 1..(IF n = 0 THEN 0 ELSE IF n < max_matches THEN n
                ELSE IF max_matches < 1 THEN 1 ELSE max_matches) |->
        [file |-> FileName(i), line |-> i, text |-> <<"t">>]]

\* what the run of the binary gave: a non-zero exit with no output is a failure,
\* output that json.loads rejects (the empty output included) is unparseable
AstStatusTrustsOutput(returncode, stdout) ==
    IF returncode # 0 /\ stdout = "" THEN "failed" ELSE "parsed"
ast_status(returncode, stdout) ==
    IF returncode # 0 /\ stdout = "" THEN "failed"
    ELSE IF stdout # "json" THEN "unparseable"
    ELSE "parsed"

ast_grep ==
    /\ Idle
    /\ \E max_matches \in BoundVals, bin_path \in Binaries :
        LET c0 == [tool |-> "ast_grep", repo_path |-> "repo", pattern |-> "t",
                   max_matches |-> max_matches]
        IN  /\ CountersUnchanged
            /\ IF max_matches <= 0
               THEN Finish(c0, Raised("ValueError"), <<>>, <<>>)
               ELSE IF bin_path = ""
               THEN Finish(c0 @@ [bin_path |-> bin_path],
                           Returned(<<[error |-> "ast-grep is not installed"]>>), <<>>, <<>>)
               ELSE \E returncode \in {0, 1}, stdout \in {"", "malformed", "json"} :
                   LET c1 == c0 @@ [bin_path |-> bin_path, returncode |-> returncode,
                                    stdout |-> stdout]
                   IN  IF ast_status(returncode, stdout) = "failed"
                       THEN Finish(c1, Returned(<<[error |-> "ast-grep failed"]>>),
                                   <<bin_path>>, <<>>)
                       ELSE IF ast_status(returncode, stdout) = "unparseable"
                       THEN Finish(c1, Returned(<<[error |-> "Failed to parse ast-grep JSON output"]>>),
                                   <<bin_path>>, <<>>)
                       ELSE \E n \in 0..(MaxN + 1) :
                           Finish(c1 @@ [n |-> n], Returned(ast_matches(n, max_matches)),
                                  <<bin_path>>, <<>>)

----------------------------------------------------------------------------
(* Hosted client: what the API answers *)

Owner == "acme"
Repo == "widgets"

PrNumbers == 1..MaxPr

\* _github_request_json for one pull request: the pull request when it exists (closed
\* or open), HTTP 404 when it does not, another failure, or JSON that is no object
PrAnswers == {"closed", "open", "404", "error", "nondict"}

\* the items of a listing of issues: an issue, a pull request (it carries the
\* pull_request field), or an element that is no object
IssueItems == {"issue", "pull", "junk"}

\* the items of a listing of pull requests, by their merged_at and updated_at, each
\* absent ("None"), before the threshold ("old"), on or after it ("new"), no ISO date
\* ("bad"), or an ISO date without a UTC offset ("naive"), which datetime.fromisoformat
\* parses to a naive datetime
PullItems ==
    {[dict |-> FALSE, merged_at |-> "None", updated_at |-> "None"],
     [dict |-> TRUE, merged_at |-> "None", updated_at |-> "None"],
     [dict |-> TRUE, merged_at |-> "None", updated_at |-> "old"],
     [dict |-> TRUE, merged_at |-> "None", updated_at |-> "new"],
     [dict |-> TRUE, merged_at |-> "None", updated_at |-> "bad"],
     [dict |-> TRUE, merged_at |-> "None", updated_at |-> "naive"],
     [dict |-> TRUE, merged_at |-> "old", updated_at |-> "new"],
     [dict |-> TRUE, merged_at |-> "new", updated_at |-> "old"]}

\* a listing: the request fails, answers JSON that is no list, or a list of items
Listings(Items) ==
    {[kind |-> "error", items |-> <<>>], [kind |-> "nonlist", items |-> <<>>]}
        \cup {[kind |-> "list", items |-> l] : l \in UNION {[1..n -> Items] : n \in 0..MaxItems}}

\* one page of the files of a pull request: the request fails, JSON that is no list,
\* or a list of files entries, each a file or an element that is no object
Pages ==
    {[kind |-> "error", items |-> <<>>], [kind |-> "nonlist", items |-> <<>>],
     [kind |-> "list", items |-> <<"file">>], [kind |-> "list", items |-> <<"junk">>],
     [kind |-> "list", items |-> <<"file", "file">>]}

EmptyPage == [kind |-> "list", items |-> <<>>]

\* the pages the API serves for a pull request; every page after them is empty
PageRuns == UNION {[1..n -> Pages] : n \in 0..MaxPages}

PageOf(pages, page) == IF page <= Len(pages) THEN pages[page] ELSE EmptyPage

ErrorList(msg) == <<[error |-> msg]>>

----------------------------------------------------------------------------
(* github_recent_issues *)

\* the loop over items, which stops once max_count are collected; item i has number i
RECURSIVE collect_issues(_, _, _, _)
collect_issues(items, i, results, max_count) ==
    IF i > Len(items) THEN results
    ELSE IF items[i] = "junk" \/ items[i] = "pull"
    THEN collect_issues(items, i + 1, results, max_count)
    ELSE LET r == Append(results, [number |-> Some(i), state |-> "closed"])
         IN  IF Len(r) >= max_count THEN r ELSE collect_issues(items, i + 1, r, max_count)

github_recent_issues ==
    /\ Idle
    /\ \E since_days \in DayVals, max_count \in BoundVals, answer \in Listings(IssueItems) :
        LET c0 == [tool |-> "github_recent_issues", owner |-> Owner, repo |-> Repo,
                   since_days |-> since_days, max_count |-> max_count, answer |-> answer]
            reqs == <<[url |-> "issues", number |-> 0, page |-> 0]>>
        IN  /\ CountersUnchanged
            /\ IF answer.kind = "error"
               THEN Finish(c0, Returned(ErrorList("GitHub request failed")), <<>>, reqs)
               ELSE IF answer.kind # "list"
               THEN Finish(c0, Returned(ErrorList("Unexpected response from GitHub issues API")),
                           <<>>, reqs)
               ELSE Finish(c0, Returned(collect_issues(answer.items, 1, <<>>, max_count)),
                           <<>>, reqs)

----------------------------------------------------------------------------
(* github_recent_prs *)

PrRecord(number, item) ==
    [number |-> number, state |-> "closed", merged_at |-> item.merged_at,
     updated_at |-> item.updated_at]

Undated == [dict |-> TRUE, merged_at |-> "None", updated_at |-> "None"]

\* the loop over range(from_pr, to_pr + 1): a 404 is skipped, another failure ends the
\* call, an answer that is no object or not closed is skipped, and the loop stops once
\* max_count are collected.  acc: the requests made, the records collected (each was
\* recorded as analyzed when collected), and whether a failure ended the call
RECURSIVE RangeLoopEndsAtNotFound(_, _, _, _, _)
RangeLoopEndsAtNotFound(number, to_pr, answers, max_count, acc) ==
    IF number > to_pr THEN acc
    ELSE LET asked == [acc EXCEPT !.reqs = Append(@, [url |-> "pull", number |-> number, page |-> 0])]
         IN  IF answers[number] = "404" THEN asked
             ELSE IF answers[number] = "error"
             THEN [asked EXCEPT !.failed = TRUE]
             ELSE IF answers[number] = "nondict" \/ answers[number] # "closed"
             THEN RangeLoopEndsAtNotFound(number + 1, to_pr, answers, max_count, asked)
             ELSE LET got == [asked EXCEPT !.results = Append(@, PrRecord(Some(number), Undated))]
                  IN  IF Len(got.results) >= max_count THEN got
                      ELSE RangeLoopEndsAtNotFound(number + 1, to_pr, answers, max_count, got)
RECURSIVE RangeLoopSkipsFailure(_, _, _, _, _)
RangeLoopSkipsFailure(number, to_pr, answers, max_count, acc) ==
    IF number > to_pr THEN acc
    ELSE LET asked == [acc EXCEPT !.reqs = Append(@, [url |-> "pull", number |-> number, page |-> 0])]
         IN  IF answers[number] \in {"404", "error", "nondict"} \/ answers[number] # "closed"
             THEN RangeLoopSkipsFailure(number + 1, to_pr, answers, max_count, asked)
             ELSE LET got == [asked EXCEPT !.results = Append(@, PrRecord(Some(number), Undated))]
                  IN  IF Len(got.results) >= max_count THEN got
                      ELSE RangeLoopSkipsFailure(number + 1, to_pr, answers, max_count, got)
RECURSIVE range_loop(_, _, _, _, _)
range_loop(number, to_pr, answers, max_count, acc) ==
    IF number > to_pr THEN acc
    ELSE LET asked == [acc EXCEPT !.reqs = Append(@, [url |-> "pull", number |-> number, page |-> 0])]
         IN  IF answers[number] = "404"
             THEN range_loop(number + 1, to_pr, answers, max_count, asked)
             ELSE IF answers[number] = "error"
             THEN [asked EXCEPT !.failed = TRUE]
             ELSE IF answers[number] = "nondict" \/ answers[number] # "closed"
             THEN range_loop(number + 1, to_pr, answers, max_count, asked)
             ELSE LET got == [asked EXCEPT !.results = Append(@, PrRecord(Some(number), Undated))]
                  IN  IF Len(got.results) >= max_count THEN got
                      ELSE range_loop(number + 1, to_pr, answers, max_count, got)

\* date_str = merged_at or updated_at
date_str(item) == IF item.merged_at # "None" THEN item.merged_at ELSE item.updated_at

\* dt is not None and dt < threshold
before_threshold(item) == date_str(item) = "old"

\* dt < threshold compares a naive datetime with the offset-aware threshold: TypeError
compare_raises(item) == date_str(item) = "naive"

\* the loop over the listed pull requests; item i has number i.  acc: the records
\* collected (each was recorded as analyzed when collected) and whether the
\* comparison of the dates raised
RECURSIVE window_loop(_, _, _, _)
window_loop(items, i, acc, max_count) ==
    IF i > Len(items) THEN acc
    ELSE IF ~items[i].dict THEN window_loop(items, i + 1, acc, max_count)
    ELSE IF compare_raises(items[i]) THEN [acc EXCEPT !.raised = TRUE]
    ELSE IF before_threshold(items[i]) THEN window_loop(items, i + 1, acc, max_count)
    ELSE LET got == [acc EXCEPT !.results = Append(@, PrRecord(Some(i), items[i]))]
         IN  IF Len(got.results) >= max_count THEN got
             ELSE window_loop(items, i + 1, got, max_count)

\* the analyzed set after recording the number of every collected record
RECURSIVE record_all(_, _)
record_all(set, results) ==
    IF results = <<>> THEN set
    ELSE record_all(record_analyzed_pr(set, Owner, Repo, Head(results).number), Tail(results))

\* the triples _record_analyzed_pr is handed while collecting the records
Handed(results) == {<<Owner, Repo, results[i].number[1]>> : i \in 1..Len(results)}

OptPr == {None} \cup {Some(n) : n \in 0..MaxPr}

\* the checks of a range when from_pr or to_pr is given: the error message, "" when it is well formed
RangeErrorIgnoresOrder(from_pr, to_pr) ==
    IF from_pr = None \/ to_pr = None THEN "from_pr and to_pr must both be provided"
    ELSE IF from_pr[1] <= 0 \/ to_pr[1] <= 0 THEN "from_pr and to_pr must be positive"
    ELSE ""
range_error(from_pr, to_pr) ==
    IF from_pr = None \/ to_pr = None THEN "from_pr and to_pr must both be provided"
    ELSE IF from_pr[1] <= 0 \/ to_pr[1] <= 0 THEN "from_pr and to_pr must be positive"
    ELSE IF from_pr[1] > to_pr[1] THEN "from_pr must be <= to_pr"
    ELSE ""

github_recent_prs ==
    /\ Idle
    /\ \E max_count \in BoundVals, from_pr \in OptPr, to_pr \in OptPr :
        LET c0 == [tool |-> "github_recent_prs", owner |-> Owner, repo |-> Repo,
                   max_count |-> max_count, from_pr |-> from_pr, to_pr |-> to_pr]
        IN  IF from_pr # None \/ to_pr # None
            THEN IF range_error(from_pr, to_pr) # ""
                 THEN Finish(c0, Returned(ErrorList(range_error(from_pr, to_pr))), <<>>, <<>>)
                      /\ CountersUnchanged
                 ELSE \E answers \in [from_pr[1]..to_pr[1] -> PrAnswers] :
                     LET end == range_loop(from_pr[1], to_pr[1], answers, max_count,
                                           [reqs |-> <<>>, results |-> <<>>, failed |-> FALSE])
                     IN  /\ Finish(c0 @@ [answers |-> answers],
                                   IF end.failed THEN Returned(ErrorList("GitHub request failed"))
                                   ELSE Returned(end.results),
                                   <<>>, end.reqs)
                         /\ ANALYZED_PRS' = record_all(ANALYZED_PRS, end.results)
                         /\ seenPRs' = seenPRs \cup Handed(end.results)
                         /\ UNCHANGED <<ANALYZED_COMMITS, seenCommits>>
            ELSE \E since_days \in DayVals, answer \in Listings(PullItems) :
                LET c1 == c0 @@ [since_days |-> since_days, answer |-> answer]
                    reqs == <<[url |-> "pulls", number |-> 0, page |-> 0]>>
                    end == window_loop(answer.items, 1, [results |-> <<>>, raised |-> FALSE],
                                       max_count)
                IN  IF answer.kind = "error"
                    THEN Finish(c1, Returned(ErrorList("GitHub request failed")), <<>>, reqs)
                         /\ CountersUnchanged
                    ELSE IF answer.kind # "list"
                    THEN Finish(c1, Returned(ErrorList("Unexpected response from GitHub pulls API")),
                                <<>>, reqs) /\ CountersUnchanged
                    ELSE /\ Finish(c1, IF end.raised THEN Raised("TypeError")
                                        ELSE Returned(end.results), <<>>, reqs)
                         /\ ANALYZED_PRS' = record_all(ANALYZED_PRS, end.results)
                         /\ seenPRs' = seenPRs \cup Handed(end.results)
                         /\ UNCHANGED <<ANALYZED_COMMITS, seenCommits>>

----------------------------------------------------------------------------
(* github_fetch_issue, github_fetch_pr *)

\* the cap on the body of a single issue or pull request
FETCH_BODY_LIMIT == 12000

\* the body of a response: absent or null (None), or a text; the texts are empty,
\* short, exactly as long as the cap, and one character longer
BodyOf(n) == [i \in 1..n |-> "x"]
Bodies ==
    {None, Some(<<>>), Some(BodyOf(2)), Some(BodyOf(FETCH_BODY_LIMIT)),
     Some(BodyOf(FETCH_BODY_LIMIT + 1))}

\* the labels of a response: objects with a name, or elements that are no object
Labels == {"bug", "security", "junk"}
LabelLists == UNION {[1..n -> Labels] : n \in 0..MaxItems}

\* the issue or pull request the API answers with: every body under two labels, and
\* every list of labels without a body
FetchedItems ==
    {[body |-> b, labels |-> <<"bug", "security">>] : b \in Bodies}
        \cup {[body |-> None, labels |-> l] : l \in LabelLists}

\* (item.get("body") or "")[:12000]
FetchBodyKeepsOneMore(body) ==
    Take(IF body = None THEN <<>> ELSE body[1], FETCH_BODY_LIMIT + 1)
fetch_body(body) == Take(IF body = None THEN <<>> ELSE body[1], FETCH_BODY_LIMIT)

\* [label.get("name") for label in item.get("labels", []) if isinstance(label, dict)]
IsLabelObject(label) == label # "junk"
label_names(labels) == SelectSeq(labels, IsLabelObject)

github_fetch_issue ==
    /\ Idle
    /\ \E number \in PrNumbers, answer \in {"closed", "error", "nondict"} :
        LET c0 == [tool |-> "github_fetch_issue", owner |-> Owner, repo |-> Repo,
                   number |-> number, answer |-> answer]
            reqs == <<[url |-> "issue", number |-> number, page |-> 0]>>
        IN  /\ CountersUnchanged
            /\ IF answer = "error"
               THEN Finish(c0, Returned([error |-> "GitHub request failed"]), <<>>, reqs)
               ELSE IF answer = "nondict"
               THEN Finish(c0, Returned([error |-> "Unexpected response from GitHub issue API"]),
                           <<>>, reqs)
               ELSE \E item \in FetchedItems :
                   Finish(c0 @@ [item |-> item],
                          Returned([number |-> Some(number), title |-> "title", state |-> answer,
                                    labels |-> label_names(item.labels),
                                    closed_at |-> "new", updated_at |-> "new",
                                    html_url |-> "html_url", body |-> fetch_body(item.body)]),
                          <<>>, reqs)

github_fetch_pr ==
    /\ Idle
    /\ \E number \in PrNumbers, answer \in {"closed", "open", "error", "nondict"} :
        LET c0 == [tool |-> "github_fetch_pr", owner |-> Owner, repo |-> Repo,
                   number |-> number, answer |-> answer]
            reqs == <<[url |-> "pull", number |-> number, page |-> 0]>>
        IN  /\ CountersUnchanged
            /\ IF answer = "error"
               THEN Finish(c0, Returned([error |-> "GitHub request failed"]), <<>>, reqs)
               ELSE IF answer = "nondict"
               THEN Finish(c0, Returned([error |-> "Unexpected response from GitHub pull API"]),
                           <<>>, reqs)
               ELSE \E item \in FetchedItems :
                   Finish(c0 @@ [item |-> item],
                          Returned([number |-> Some(number), title |-> "title", state |-> answer,
                                    merged_at |-> "None", updated_at |-> "new",
                                    html_url |-> "html_url", body |-> fetch_body(item.body)]),
                          <<>>, reqs)

----------------------------------------------------------------------------
(* github_fetch_pr_files *)

\* the "for item in items" loop of one page, which stops once max_files are collected
RECURSIVE collect_page(_, _, _)
collect_page(items, files, max_files) ==
    IF items = <<>> THEN files
    ELSE IF Head(items) = "junk" THEN collect_page(Tail(items), files, max_files)
    ELSE LET f == Append(files, [filename |-> FileName(Len(files) + 1), status |-> "modified"])
         IN  IF Len(f) >= max_files THEN f ELSE collect_page(Tail(items), f, max_files)

\* the "while len(files) < max_files" loop.  acc: the requests made, the files
\* collected, and whether a failed request ended the call
PageLoopIgnoresMaxFiles(pages, page, number, max_files, acc) ==
    LET Ask(p) == [url |-> "files", number |-> number, page |-> p]
        \* the first page that ends the loop whatever was collected
        last == CHOOSE p \in 1..(Len(pages) + 1) :
                    /\ PageOf(pages, p).kind # "list" \/ PageOf(pages, p).items = <<>>
                    /\ \A q \in 1..(p - 1) :
                           PageOf(pages, q).kind = "list" /\ PageOf(pages, q).items # <<>>
    IN  [reqs |-> [p \in 1..last |-> Ask(p)],
         files |-> <<>>,
         failed |-> PageOf(pages, last).kind = "error"]
RECURSIVE page_loop(_, _, _, _, _)
page_loop(pages, page, number, max_files, acc) ==
    IF ~(Len(acc.files) < max_files) THEN acc
    ELSE LET asked == [acc EXCEPT !.reqs = Append(@, [url |-> "files", number |-> number, page |-> page])]
             items == PageOf(pages, page)
         IN  IF items.kind = "error" THEN [asked EXCEPT !.failed = TRUE]
             ELSE IF items.kind # "list" THEN asked
             ELSE IF items.items = <<>> THEN asked
             ELSE page_loop(pages, page + 1, number, max_files,
                            [asked EXCEPT !.files = collect_page(items.items, @, max_files)])

github_fetch_pr_files ==
    /\ Idle
    /\ \E number \in PrNumbers, max_files \in BoundVals, pages \in PageRuns :
        LET c0 == [tool |-> "github_fetch_pr_files", owner |-> Owner, repo |-> Repo,
                   number |-> number, max_files |-> max_files, pages |-> pages]
            end == page_loop(pages, 1, number, max_files,
                             [reqs |-> <<>>, files |-> <<>>, failed |-> FALSE])
        IN  IF end.failed
            THEN Finish(c0, Returned(ErrorList("GitHub request failed")), <<>>, end.reqs)
                 /\ CountersUnchanged
            ELSE /\ Finish(c0, Returned(end.files), <<>>, end.reqs)
                 /\ ANALYZED_PRS' = record_analyzed_pr(ANALYZED_PRS, Owner, Repo, Some(number))
                 /\ seenPRs' = seenPRs \cup {<<Owner, Repo, number>>}
                 /\ UNCHANGED <<ANALYZED_COMMITS, seenCommits>>

\* reset_analyzed_pr_count
reset_analyzed_pr_count ==
    /\ Idle
    /\ ANALYZED_PRS' = {}
    /\ seenPRs' = {}
    /\ Finish([tool |-> "reset_analyzed_pr_count"], Returned(<<>>), <<>>, <<>>)
    /\ UNCHANGED <<ANALYZED_COMMITS, seenCommits>>

----------------------------------------------------------------------------
(* github_fetch_pr_comments *)

\* the cap on the body of a comment
COMMENT_BODY_LIMIT == 4000

\* the comments of one stream as the API lists them: each has a short body or a body
\* one character longer than the cap
CommentKinds == {"short", "long"}
CommentBody(kind) == IF kind = "short" THEN BodyOf(2) ELSE BodyOf(COMMENT_BODY_LIMIT + 1)

\* one stream of comments: the request fails, or a list of comments
Streams ==
    {[kind |-> "error", items |-> <<>>]}
        \cup {[kind |-> "list", items |-> l] : l \in UNION {[1..n -> CommentKinds] : n \in 0..MaxItems}}

\* body capped at 4000 characters
CommentBodyKeepsOneMore(body) == Take(body, COMMENT_BODY_LIMIT + 1)
comment_body(body) == Take(body, COMMENT_BODY_LIMIT)

\* the record of a per-line review comment: it carries its path and line
review_comment(kind, i) ==
    [user |-> "alice", body |-> comment_body(CommentBody(kind)), created_at |-> "new",
     path |-> Some(FileName(i)), line |-> Some(i)]

\* the record of an issue-style comment: path and line are null
issue_comment(kind) ==
    [user |-> "bob", body |-> comment_body(CommentBody(kind)), created_at |-> "new",
     path |-> None, line |-> None]

\* the review comments first, then the issue-style comments; a failed request of
\* either stream gives one error record
github_fetch_pr_comments ==
    /\ Idle
    /\ \E number \in PrNumbers, review \in Streams :
        LET c0 == [tool |-> "github_fetch_pr_comments", owner |-> Owner, repo |-> Repo,
                   number |-> number, review |-> review]
            first == <<[url |-> "review comments", number |-> number, page |-> 0]>>
            both == Append(first, [url |-> "issue comments", number |-> number, page |-> 0])
        IN  IF review.kind = "error"
            THEN Finish(c0, Returned(ErrorList("GitHub request failed")), <<>>, first)
                 /\ CountersUnchanged
            ELSE \E issue \in Streams :
                IF issue.kind = "error"
                THEN Finish(c0 @@ [issue |-> issue], Returned(ErrorList("GitHub request failed")),
                            <<>>, both)
                     /\ CountersUnchanged
                ELSE /\ Finish(c0 @@ [issue |-> issue],
                               Returned([i \in 1..Len(review.items) |->
                                            review_comment(review.items[i], i)]
                                        \o [i \in 1..Len(issue.items) |->
                                               issue_comment(issue.items[i])]),
                               <<>>, both)
                     /\ ANALYZED_PRS' = record_analyzed_pr(ANALYZED_PRS, Owner, Repo, Some(number))
                     /\ seenPRs' = seenPRs \cup {<<Owner, Repo, number>>}
                     /\ UNCHANGED <<ANALYZED_COMMITS, seenCommits>>

----------------------------------------------------------------------------
(* git_github_repo *)

\* the pieces of a remote URL; a name is made of ordinary characters, the suffix
\* ".git" and "#", which starts the fragment of a URL
GIT_AT == "git@"
COLON == ":"
SLASH == "/"
HTTPS == "https://"
DOT_GIT == ".git"
HASH == "#"

Hosts == {"github.com", "gitlab.com"}

NameChars == {"a", DOT_GIT, HASH}
Names == UNION {[1..n -> NameChars] : n \in 0..MaxName}

\* what follows the host: one segment, or owner/repo with or without ".git"
RemotePaths ==
    Names \cup {o \o <<SLASH>> \o r \o sfx : o \in Names, r \in Names, sfx \in {<<>>, <<DOT_GIT>>}}

SshUrl(host, path) == <<GIT_AT, host, COLON>> \o path
HttpsUrl(host, path) == <<HTTPS, host, SLASH>> \o path

\* what "git remote get-url" can print, without its final newline
RemoteUrls ==
    {<<>>} \cup {SshUrl(h, path) : h \in Hosts, path \in RemotePaths}
           \cup {HttpsUrl(h, path) : h \in Hosts, path \in RemotePaths}

GitHubRepo(owner, repo) == [found |-> TRUE, owner |-> owner, repo |-> repo]
NoRepo == [found |-> FALSE, owner |-> <<>>, repo |-> <<>>]

\* re.match(r"^git@github\.com:(?P<owner>[^/]+)/(?P<repo>[^/]+?)(?:\.git)?$", url):
\* the owner runs to the first slash, the repo takes the rest, which holds no slash,
\* less a final ".git" unless that would leave it empty
ssh_match(url) ==
    LET rest == SubSeq(url, 4, Len(url))
        i == IndexOf(rest, SLASH)
        tail == SubSeq(rest, i + 1, Len(rest))
    IN  IF /\ Len(url) >= 3
           /\ url[1] = GIT_AT /\ url[2] = "github.com" /\ url[3] = COLON
           /\ i > 1
           /\ tail # <<>>
           /\ IndexOf(tail, SLASH) = 0
        THEN GitHubRepo(SubSeq(rest, 1, i - 1),
                        IF Len(tail) >= 2 /\ tail[Len(tail)] = DOT_GIT
                        THEN SubSeq(tail, 1, Len(tail) - 1) ELSE tail)
        ELSE NoRepo

\* the least index of a piece of the set in s, Len(s) + 1 when there is none
FirstOf(s, set) ==
    IF \E i \in 1..Len(s) : s[i] \in set
    THEN CHOOSE i \in 1..Len(s) : s[i] \in set /\ \A j \in 1..(i - 1) : s[j] \notin set
    ELSE Len(s) + 1

\* urllib.parse.urlparse(url), its netloc and path: the netloc follows "scheme://" and
\* ends at the first "/" or "#", the path ends at "#"; without "//" there is no netloc
urlparse(url) ==
    IF url # <<>> /\ Head(url) = HTTPS
    THEN LET rest == Tail(url)
             e == FirstOf(rest, {SLASH, HASH})
             after == SubSeq(rest, e, Len(rest))
         IN  [netloc |-> SubSeq(rest, 1, e - 1),
              path |-> SubSeq(after, 1, FirstOf(after, {HASH}) - 1)]
    ELSE [netloc |-> <<>>, path |-> SubSeq(url, 1, FirstOf(url, {HASH}) - 1)]

\* str.removesuffix(".git")
RemoveSuffixKeepsIt(name) == name
removesuffix(name) ==
    IF name # <<>> /\ name[Len(name)] = DOT_GIT THEN SubSeq(name, 1, Len(name) - 1) ELSE name

NonEmpty(piece) == piece # <<>>

\* _parse_github_repo_from_remote
parse_github_repo_from_remote(remote_url) ==
    LET url == strip(remote_url)
        parsed == urlparse(url)
        parts == SelectSeq(split(parsed.path, SLASH), NonEmpty)
    IN  IF url = <<>> THEN NoRepo
        ELSE IF ssh_match(url).found THEN ssh_match(url)
        ELSE IF parsed.netloc # <<"github.com">> THEN NoRepo
        ELSE IF Len(parts) < 2 THEN NoRepo
        ELSE IF parts[1] = <<>> \/ removesuffix(parts[2]) = <<>> THEN NoRepo
        ELSE GitHubRepo(parts[1], removesuffix(parts[2]))

\* git's exit status for "remote get-url": 2 when the remote does not exist
RemoteExits == {0, 2}

\* the remotes a caller asks for
Remotes == {"origin", "upstream"}

\* f"Failed to read git remote '{remote}': {e}"
ReadErrorOmitsRemote(remote, e) == <<"Failed to read git remote: ", e>>
read_error(remote, e) == <<"Failed to read git remote '", remote, "': ", e>>

git_github_repo ==
    /\ Idle
    /\ CountersUnchanged
    /\ \E repo_path \in RepoPaths, remote \in Remotes, exit \in RemoteExits :
        LET c0 == [tool |-> "git_github_repo", repo_path |-> repo_path, remote |-> remote,
                   exit |-> exit]
            failed == run_git(repo_path, "remote", exit, <<>>)
        IN  IF failed.exc # ""
            THEN Finish(c0, Returned([error |-> read_error(remote, failed.exc)]),
                        failed.procs, <<>>)
            ELSE \E url \in RemoteUrls :
                LET out == run_git(repo_path, "remote", exit, url \o <<NL>>)
                    resolved == parse_github_repo_from_remote(strip(out.stdout))
                IN  Finish(c0 @@ [url |-> url],
                           IF ~resolved.found
                           THEN Returned([error |-> "Could not parse a github.com remote"])
                           ELSE Returned([owner |-> resolved.owner, repo |-> resolved.repo]),
                           out.procs, <<>>)

----------------------------------------------------------------------------
(* Overlapping tool calls *)

\* The tool node of the agent runs the tool calls of one model turn on worker threads.
\* A call shares nothing with the others but the two sets.  Each access to a set is
\* one call into the interpreter (set.add, len, set.clear), which runs without
\* another thread in between; what interleaves are the steps of the calls: the
\* start of a call, each recording of a key, and the resets and reads of the caller.
Threads == 1..MaxThreads

\* a thread that runs no call has no key left to record
NoJob == [commits |-> <<>>, prs |-> <<>>]

\* what a call will record, in order: git_show_commit the sha of its commit,
\* github_fetch_pr_files its pull request, github_recent_prs in range mode the closed
\* pull requests of its range, ascending
Jobs ==
    {[commits |-> <<CommitObj(id).sha>>, prs |-> <<>>] : id \in {"c1", "c2"}}
        \cup {[commits |-> <<>>, prs |-> [i \in 1..(to - from + 1) |-> from + i - 1]] :
                  from \in PrNumbers, to \in PrNumbers}

\* a thread starts a tool call
tool_call_starts ==
    \E t \in Threads, job \in Jobs \ {NoJob} :
        /\ threads[t] = NoJob
        /\ threads' = [threads EXCEPT ![t] = job]
        /\ UNCHANGED <<ANALYZED_COMMITS, ANALYZED_PRS, seenCommits, seenPRs,
                       call, result, subprocs, requests>>

\* a running call records its next key; the call returns after its last one
tool_call_records ==
    \E t \in Threads :
        /\ threads[t] # NoJob
        /\ IF threads[t].commits # <<>>
           THEN /\ ANALYZED_COMMITS' = record_analyzed_commit(ANALYZED_COMMITS, Head(threads[t].commits))
                /\ seenCommits' = seenCommits \cup {Head(threads[t].commits)}
                /\ threads' = [threads EXCEPT ![t].commits = Tail(@)]
                /\ UNCHANGED <<ANALYZED_PRS, seenPRs>>
           ELSE /\ ANALYZED_PRS' = record_analyzed_pr(ANALYZED_PRS, Owner, Repo,
                                                      Some(Head(threads[t].prs)))
                /\ seenPRs' = seenPRs \cup {<<Owner, Repo, Head(threads[t].prs)>>}
                /\ threads' = [threads EXCEPT ![t].prs = Tail(@)]
                /\ UNCHANGED <<ANALYZED_COMMITS, seenCommits>>
        /\ UNCHANGED <<call, result, subprocs, requests>>

----------------------------------------------------------------------------

Init ==
    /\ ANALYZED_COMMITS = {}
    /\ ANALYZED_PRS = {}
    /\ call = NoCall
    /\ result = Returned(<<>>)
    /\ subprocs = <<>>
    /\ requests = <<>>
    /\ seenCommits = {}
    /\ seenPRs = {}
    /\ threads = [t \in Threads |-> NoJob]

\* the caller takes the result of the call and goes on
agent_continues ==
    /\ ~Idle
    /\ call' = NoCall
    /\ result' = Returned(<<>>)
    /\ subprocs' = <<>>
    /\ requests' = <<>>
    /\ CountersUnchanged
    /\ UNCHANGED threads

Next ==
    \/ agent_continues
    \/ git_show_commit
    \/ git_show_file
    \/ git_diff
    \/ git_recent_commits
    \/ git_log_search
    \/ git_ls_files
    \/ git_grep
    \/ ast_grep
    \/ github_recent_issues
    \/ github_recent_prs
    \/ github_fetch_issue
    \/ github_fetch_pr
    \/ github_fetch_pr_files
    \/ reset_analyzed_pr_count
    \/ reset_analyzed_commit_count

Spec == Init /\ [][Next]_vars

\* the resolution of the remote alone, over every URL
NextRemote ==
    \/ agent_continues
    \/ git_github_repo

SpecRemote == Init /\ [][NextRemote]_vars

\* the fetch of the comments of a pull request alone, over every pair of streams
NextComments ==
    \/ agent_continues
    \/ github_fetch_pr_comments

SpecComments == Init /\ [][NextComments]_vars

\* tool calls on worker threads, the caller resetting the counters in between
NextThreads ==
    \/ tool_call_starts
    \/ tool_call_records
    \/ reset_analyzed_commit_count
    \/ reset_analyzed_pr_count
    \/ agent_continues

SpecThreads == Init /\ [][NextThreads]_vars

----------------------------------------------------------------------------
(* Properties *)

\* the lines of a text, counted independently of splitlines: the pieces between
\* newlines, a final newline ending the last line rather than starting another
LinesOf(t) ==
    IF t = <<>> THEN <<>>
    ELSE IF t[Len(t)] = NL THEN split(SubSeq(t, 1, Len(t) - 1), NL)
    ELSE split(t, NL)

\* a text holds exactly these lines, one after the other
HoldsLines(text, lines) ==
    IF lines = <<>> THEN text = <<>> ELSE split(text, NL) = lines

Returns == ~Idle /\ result.kind = "return"
Raises == ~Idle /\ result.kind = "raise"

\* the call passes a bounded-size parameter that is not positive
BoundNames == {"since_days", "max_count", "max_patch_lines", "max_lines", "max_matches", "max_files"}
NonPositiveBound(c) == \E f \in BoundNames \cap DOMAIN c : c[f] <= 0

IsErrorList(v) == Len(v) = 1 /\ "error" \in DOMAIN v[1]

C3_NonPositiveBoundRejected ==
    (~Idle /\ NonPositiveBound(call)) =>
        (result.kind = "raise" /\ result.exc = "ValueError" /\ subprocs = <<>> /\ requests = <<>>)

\* C4: github_recent_issues, github_recent_prs and github_fetch_pr_files never return
\* more records than max_count / max_files, whatever integer it is.
C4_ListWithinMaximum ==
    (call.tool \in {"github_recent_issues", "github_recent_prs", "github_fetch_pr_files"}
         /\ Returns /\ ~IsErrorList(result.val)) =>
        Len(result.val) <= (IF call.tool = "github_fetch_pr_files" THEN call.max_files
                            ELSE call.max_count)

\* the tools that run a git command against repo_path
GitTools == {"git_recent_commits", "git_show_commit", "git_show_file", "git_grep", "git_diff",
             "git_log_search", "git_ls_files"}

\* C5: a tool that runs git against a repo_path without a .git directory fails with
\* the not-a-repository error and starts no subprocess.
C5_RepositoryCheckedFirst ==
    (call.tool \in GitTools /\ ~NonPositiveBound(call) /\ ~HasGitDir(call.repo_path)) =>
        (result.kind = "raise" /\ result.exc = "ValueError" /\ subprocs = <<>>)

\* C6: with a valid repository and positive bounds, a git command that exits non-zero
\* gives the caller an error record, not an exception.
C6_GitFailureIsErrorRecord ==
    (call.tool \in GitTools /\ ~NonPositiveBound(call) /\ HasGitDir(call.repo_path)) =>
        ~(result.kind = "raise" /\ result.exc = "CalledProcessError")

\* the keys a successful call hands to the counters
CommitKeys(c, r) ==
    IF c.tool = "git_show_commit" /\ r.kind = "return" THEN {r.val.sha} ELSE {}
PrKeys(c, r, reqs) ==
    IF c.tool = "github_fetch_pr_files" /\ ~IsErrorList(r.val)
    THEN {<<c.owner, c.repo, c.number>>}
    ELSE IF c.tool = "github_recent_prs" /\ "answers" \in DOMAIN c
    THEN {<<c.owner, c.repo, reqs[i].number>> :
              i \in {j \in 1..Len(reqs) : c.answers[reqs[j].number] = "closed"}}
    ELSE IF c.tool = "github_recent_prs" /\ "answer" \in DOMAIN c /\ r.kind = "return"
                /\ ~IsErrorList(r.val)
    THEN {<<c.owner, c.repo, r.val[i].number[1]>> : i \in 1..Len(r.val)}
    ELSE IF c.tool = "github_recent_prs" /\ "answer" \in DOMAIN c /\ r.kind = "raise"
    THEN Handed(window_loop(c.answer.items, 1, [results |-> <<>>, raised |-> FALSE],
                            c.max_count).results)
    ELSE {}

\* C7: each count is the number of distinct keys observed since its reset: a key seen
\* before leaves the count as it is, each new key raises it by one, a reset makes it 0.
C7_CountsDistinctKeys ==
    [][/\ Cardinality(ANALYZED_COMMITS') = Cardinality(seenCommits')
       /\ Cardinality(ANALYZED_PRS') = Cardinality(seenPRs')
       /\ Cardinality(ANALYZED_COMMITS') =
              IF call'.tool = "reset_analyzed_commit_count" THEN 0
              ELSE Cardinality(ANALYZED_COMMITS)
                       + Cardinality(CommitKeys(call', result') \ seenCommits)
       /\ Cardinality(ANALYZED_PRS') =
              IF call'.tool = "reset_analyzed_pr_count" THEN 0
              ELSE Cardinality(ANALYZED_PRS) + Cardinality(PrKeys(call', result', requests') \ seenPRs)
      ]_vars

\* both counts above one, after a commit that was seen before is shown again
C7_Witness ==
    /\ call.tool = "git_show_commit" /\ Returns
    /\ call.sha = "HEAD"
    /\ get_analyzed_commit_count = 2
    /\ get_analyzed_pr_count = 2

\* C8: after a successful github_fetch_pr or github_fetch_pr_files the triple
\* (owner, repo, number) is in the analyzed set, and after a successful
\* github_recent_prs so is every pull request it returned.
C8_FetchRecordsPr ==
    /\ (call.tool = "github_fetch_pr" /\ Returns /\ "error" \notin DOMAIN result.val) =>
           <<call.owner, call.repo, call.number>> \in ANALYZED_PRS
    /\ (call.tool \in {"github_fetch_pr_files", "github_recent_prs"} /\ Returns) =>
           PrKeys(call, result, requests) \subseteq ANALYZED_PRS

\* a range is malformed: one end missing, one end not positive, or from_pr > to_pr
Malformed(from_pr, to_pr) ==
    \/ (from_pr = None) # (to_pr = None)
    \/ /\ from_pr # None
       /\ to_pr # None
       /\ (from_pr[1] <= 0 \/ to_pr[1] <= 0 \/ from_pr[1] > to_pr[1])

\* C9: github_recent_prs with a malformed range returns a single error record, sends
\* no HTTP request and leaves the analyzed-PR set as it was.
C9_MalformedRangeRejected ==
    [][(call'.tool = "github_recent_prs" /\ Malformed(call'.from_pr, call'.to_pr)) =>
           /\ result'.kind = "return"
           /\ IsErrorList(result'.val)
           /\ requests' = <<>>
           /\ ANALYZED_PRS' = ANALYZED_PRS
      ]_vars

\* from_pr=2, to_pr=1 is refused while a pull request is on record
C9_Witness ==
    /\ call.tool = "github_recent_prs" /\ Returns
    /\ call.from_pr = Some(2) /\ call.to_pr = Some(1)
    /\ IsErrorList(result.val)
    /\ ANALYZED_PRS # {}

\* the numbers of a set in ascending order
RECURSIVE Ascending(_)
Ascending(S) ==
    IF S = {} THEN <<>>
    ELSE LET m == CHOOSE x \in S : \A y \in S : x <= y
         IN  <<m>> \o Ascending(S \ {m})

\* a call of github_recent_prs in range mode with max_count >= 1 in which no request
\* fails except with HTTP 404
RangeCall ==
    /\ call.tool = "github_recent_prs" /\ Returns
    /\ "answers" \in DOMAIN call
    /\ call.max_count >= 1
    /\ \A n \in DOMAIN call.answers : call.answers[n] # "error"

ClosedBelow(n) == {k \in DOMAIN call.answers : k < n /\ call.answers[k] = "closed"}
Requested == {requests[i].number : i \in 1..Len(requests)}

\* the result is the closed pull requests of the range, ascending, cut to max_count
RangeResult ==
    [i \in 1..Len(result.val) |-> result.val[i].number[1]]
        = Take(Ascending({n \in DOMAIN call.answers : call.answers[n] = "closed"}), call.max_count)

\* C10 as claimed: the result is the closed pull requests of the range, ascending, cut
\* to max_count, and after a request answered 404 every later number of the range is
\* still requested.
C10_AsClaimed ==
    RangeCall =>
        /\ RangeResult
        /\ \A k \in Requested : call.answers[k] = "404" =>
               \A j \in DOMAIN call.answers : j > k => j \in Requested

\* C10 amended: the result is the closed pull requests of the range, ascending, cut to
\* max_count; a 404 is skipped, and every later number is still requested unless
\* max_count records were collected before it.
C10_RangeSkipsNotFound ==
    RangeCall =>
        /\ RangeResult
        /\ \A j \in DOMAIN call.answers :
               j \in Requested <=> Cardinality(ClosedBelow(j)) < call.max_count

\* 1 is not found, 2 and 3 are closed and both returned
C10_Witness ==
    /\ RangeCall
    /\ call.from_pr = Some(1) /\ call.to_pr = Some(3) /\ call.max_count = 2
    /\ call.answers[1] = "404"
    /\ Len(result.val) = 2

\* a call of github_recent_prs in range mode whose range passed the checks
InRangeMode == call.tool = "github_recent_prs" /\ Returns /\ "answers" \in DOMAIN call

\* the numbers whose request failed with something other than HTTP 404
FailedRequests == {n \in Requested : call.answers[n] = "error"}

\* C11: in range mode, when the request for a number fails with anything other than
\* HTTP 404, the call returns exactly one error record, none of the pull requests
\* collected before it, and no request is made for a higher number.
C11_RangeFailureAborts ==
    (InRangeMode /\ FailedRequests # {}) =>
        /\ IsErrorList(result.val)
        /\ \A i \in 1..Len(result.val) : "number" \notin DOMAIN result.val[i]
        /\ \A n \in FailedRequests : \A m \in Requested : m <= n

\* 1 is closed and collected, the request for 2 fails, 3 is never requested
C11_Witness ==
    /\ InRangeMode
    /\ call.from_pr = Some(1) /\ call.to_pr = Some(3) /\ call.max_count = 2
    /\ call.answers[1] = "closed" /\ call.answers[2] = "error"
    /\ IsErrorList(result.val)
    /\ Requested = {1, 2}

\* a call of github_recent_prs in time-window mode that was answered a list
InWindowMode ==
    /\ call.tool = "github_recent_prs" /\ ~Idle
    /\ "answer" \in DOMAIN call
    /\ call.answer.kind = "list"

\* merged_at when present, otherwise updated_at
EffectiveDate(item) == IF item.merged_at # "None" THEN item.merged_at ELSE item.updated_at

\* the positions of the listed pull requests whose effective date is on or after the
\* threshold, absent, or no date at all
RECURSIVE KeptPositions(_, _)
KeptPositions(items, i) ==
    IF i > Len(items) THEN <<>>
    ELSE (IF items[i].dict /\ EffectiveDate(items[i]) \in {"new", "None", "bad"}
          THEN <<i>> ELSE <<>>) \o KeptPositions(items, i + 1)

\* C12: in time-window mode with max_count >= 1, the call returns the listed pull
\* requests whose effective date (merged_at when present, otherwise updated_at) is on
\* or after now minus since_days, or absent or unparseable, in response order, cut at
\* max_count.
C12_WindowKeepsRecentOrUndated ==
    (InWindowMode /\ call.max_count >= 1) =>
        /\ result.kind = "return"
        /\ [i \in 1..Len(result.val) |-> result.val[i].number[1]]
               = Take(KeptPositions(call.answer.items, 1), call.max_count)

FilesCall == call.tool = "github_fetch_pr_files" /\ Returns

\* the files entries the API served on pages 1..p
RECURSIVE FilesThrough(_, _)
FilesThrough(pages, p) ==
    IF p = 0 THEN 0
    ELSE FilesThrough(pages, p - 1)
             + Cardinality({k \in 1..Len(PageOf(pages, p).items) : PageOf(pages, p).items[k] = "file"})

\* C13: github_fetch_pr_files requests pages 1, 2, 3, ... in increasing order, each at
\* most once; a page is requested only while fewer than max_files files are collected
\* and the page before it was a non-empty list; and against a server whose pages run
\* out the call ends after at most one request more than the pages served.
C13_PagesInOrderUntilDone ==
    FilesCall =>
        /\ \A i \in 1..Len(requests) : requests[i].page = i /\ requests[i].url = "files"
        /\ \A i \in 1..Len(requests) :
               /\ FilesThrough(call.pages, i - 1) < call.max_files
               /\ i > 1 => /\ PageOf(call.pages, i - 1).kind = "list"
                            /\ PageOf(call.pages, i - 1).items # <<>>
        /\ Len(requests) <= Len(call.pages) + 1

\* two pages requested, the second one filling max_files
C13_Witness ==
    /\ FilesCall
    /\ call.max_files = 2
    /\ Len(requests) = 2 /\ requests[2].page = 2
    /\ Len(call.pages) = 2
    /\ Len(result.val) = 2

\* the characters of a text
Elems(t) == {t[i] : i \in 1..Len(t)}

\* C14: whenever a size bound makes a result hold less than the source supplied, the
\* result carries a truncation marker: the patch of git_show_commit, the text of
\* git_show_file and git_diff, the listing of git_ls_files and the matches of git_grep.
C14_TruncationIsMarked ==
    /\ (call.tool = "git_show_commit" /\ Returns
            /\ Len(LinesOf(call.diff)) > call.max_patch_lines) =>
           PATCH_MARKER \in Elems(result.val.patch)
    /\ (call.tool = "git_show_file" /\ Returns /\ "stdout" \in DOMAIN call
            /\ Len(LinesOf(call.stdout)) > call.max_lines) =>
           FILE_MARKER \in Elems(result.val.content)
    /\ (call.tool = "git_diff" /\ Returns /\ Len(LinesOf(call.stdout)) > call.max_lines) =>
           DIFF_MARKER \in Elems(result.val.diff)
    /\ (call.tool = "git_ls_files" /\ Returns /\ Len(result.val) < call.tracked) =>
           \E i \in 1..Len(result.val) :
               result.val[i] \notin {FileName(k) : k \in 1..call.tracked}
    /\ (call.tool = "git_grep" /\ Returns /\ call.returncode = 0
            /\ Len(result.val) < Cardinality({k \in 1..Len(call.output) :
                                                  Len(split2(call.output[k], ":")) = 3})) =>
           \E i \in 1..Len(result.val) : "path" \notin DOMAIN result.val[i]

\* a list result that holds an error record
HasErrorRecord(v) == \E i \in 1..Len(v) : "error" \in DOMAIN v[i]

\* C15: a hosted tool that was answered a response of unexpected shape returns an
\* error record: a listing or a files page that is no list, a single pull request
\* that is no object.
C15_UnexpectedShapeIsError ==
    /\ (call.tool = "github_recent_issues" /\ ~Idle /\ call.answer.kind = "nonlist") =>
           (result.kind = "return" /\ HasErrorRecord(result.val))
    /\ (call.tool = "github_recent_prs" /\ ~Idle /\ "answer" \in DOMAIN call
            /\ call.answer.kind = "nonlist") =>
           (result.kind = "return" /\ HasErrorRecord(result.val))
    /\ (call.tool = "github_fetch_pr" /\ ~Idle /\ call.answer = "nondict") =>
           (result.kind = "return" /\ "error" \in DOMAIN result.val)
    /\ (call.tool = "github_recent_prs" /\ ~Idle /\ "answers" \in DOMAIN call
            /\ \E n \in Requested : call.answers[n] = "nondict") =>
           (result.kind = "return" /\ HasErrorRecord(result.val))
    /\ (call.tool = "github_fetch_pr_files" /\ ~Idle
            /\ \E i \in 1..Len(requests) : PageOf(call.pages, i).kind = "nonlist") =>
           (result.kind = "return" /\ HasErrorRecord(result.val))

\* a call of git_github_repo that read the URL of the remote
RemoteCall == call.tool = "git_github_repo" /\ Returns /\ "url" \in DOMAIN call

\* the four shapes of the URL of owner o and repository r on a host
Shapes(host, o, r) ==
    {SshUrl(host, o \o <<SLASH>> \o r), SshUrl(host, o \o <<SLASH>> \o r \o <<DOT_GIT>>),
     HttpsUrl(host, o \o <<SLASH>> \o r), HttpsUrl(host, o \o <<SLASH>> \o r \o <<DOT_GIT>>)}

\* every shape of o/r on github.com resolves to {owner: o, repo: r}, and on another
\* host to an error record
ResolvesAlike(o, r) ==
    /\ call.url \in Shapes("github.com", o, r) => result.val = [owner |-> o, repo |-> r]
    /\ \A h \in Hosts \ {"github.com"} :
           call.url \in Shapes(h, o, r) => "error" \in DOMAIN result.val

\* the names the statement ranges over: not empty, the repository not ending in ".git"
OwnerNames == Names \ {<<>>}
RepoNames == {r \in Names : r # <<>> /\ r[Len(r)] # DOT_GIT}

\* the names free of "#"
Plain(name) == \A i \in 1..Len(name) : name[i] # HASH

\* C16 as claimed: for every non-empty owner o and repository name r not ending in
\* ".git", the four URL shapes on github.com resolve to {owner: o, repo: r} and the
\* same paths on another host to an error record.
C16_AsClaimed ==
    RemoteCall => \A o \in OwnerNames, r \in RepoNames : ResolvesAlike(o, r)

\* C16 amended: the same for every owner and repository name made of characters that
\* a URL keeps in its path (no "#").
C16_ShapesResolveAlike ==
    RemoteCall =>
        \A o \in {n \in OwnerNames : Plain(n)}, r \in {n \in RepoNames : Plain(n)} :
            ResolvesAlike(o, r)

\* https://github.com/a/a.git resolves to owner a, repository a
C16_Witness ==
    /\ RemoteCall
    /\ call.url = HttpsUrl("github.com", <<"a", SLASH, "a", DOT_GIT>>)
    /\ result.val = [owner |-> <<"a">>, repo |-> <<"a">>]

\* a name once one trailing ".git" is stripped
Stripped(name) ==
    IF name # <<>> /\ name[Len(name)] = DOT_GIT THEN SubSeq(name, 1, Len(name) - 1) ELSE name

\* a URL that names no repository of github.com: another host, fewer than two path
\* segments, or an owner or repository name that is empty once ".git" is stripped
NamesNoRepo(host, path) ==
    LET segments == split(path, SLASH)
    IN  \/ host # "github.com"
        \/ Len(segments) < 2
        \/ segments[1] = <<>>
        \/ Stripped(segments[2]) = <<>>

\* C17: in both accepted shapes, a URL on another host, with fewer than two path
\* segments, or with an owner or repository name that is empty once a trailing ".git"
\* is stripped, resolves to an error record and never to an {owner, repo} pair.
C17_NeverGuesses ==
    RemoteCall =>
        \A host \in Hosts, path \in RemotePaths :
            (call.url \in {SshUrl(host, path), HttpsUrl(host, path)} /\ NamesNoRepo(host, path)) =>
                ("error" \in DOMAIN result.val /\ "owner" \notin DOMAIN result.val)

\* a call of git_grep that ran the search
GrepCall == call.tool = "git_grep" /\ ~Idle /\ "returncode" \in DOMAIN call

\* C18: when git grep exits with status 1 the result is the empty list; when it exits
\* with another non-zero status the call raises and returns nothing.
C18_NoMatchIsEmptyFailureRaises ==
    GrepCall =>
        /\ call.returncode = 1 => (result.kind = "return" /\ result.val = <<>>)
        /\ call.returncode \notin {0, 1} =>
               (result.kind = "raise" /\ result.exc = "RuntimeError")

\* the search fails in a valid repository and the call raises
C18_Witness ==
    /\ GrepCall
    /\ HasGitDir(call.repo_path)
    /\ call.returncode = 128
    /\ Raises

\* a line of the form path:line:text once split on its first two colons: three parts,
\* the second a line number
WellFormed(line) ==
    LET parts == split2(line, ":")
    IN  Len(parts) = 3 /\ parts[2] \in {<<"7">>, <<"8">>}

\* the match a well-formed line stands for
MatchOf(line) ==
    LET parts == split2(line, ":")
    IN  [path |-> parts[1], line |-> IF parts[2] = <<"7">> THEN 7 ELSE 8, text |-> parts[3]]

\* C19: git_grep with max_matches M >= 1 returns at most M matches: the first M
\* well-formed path:line:text lines of the output, in output order, each split on its
\* first two colons only.
C19_FirstWellFormedMatches ==
    (GrepCall /\ call.returncode = 0 /\ call.max_matches >= 1) =>
        LET good == SelectSeq(call.output, WellFormed)
        IN  /\ result.kind = "return"
            /\ Len(result.val) <= call.max_matches
            /\ result.val = [i \in 1..Len(Take(good, call.max_matches)) |-> MatchOf(good[i])]

\* a call of git_show_file with max_lines >= 1 for a path or a ref that does not exist
MissingFileCall ==
    /\ call.tool = "git_show_file" /\ ~Idle
    /\ call.max_lines >= 1
    /\ call.file_path = "missing.txt" \/ call.ref = "bad"

\* C20: git_show_file with max_lines >= 1 on a path or ref that does not exist returns
\* a record with a non-empty error field and no content, and does not raise.
C20_MissingFileIsErrorRecord ==
    MissingFileCall =>
        /\ result.kind = "return"
        /\ "error" \in DOMAIN result.val
        /\ result.val.error # <<>>
        /\ "content" \notin DOMAIN result.val

\* the path is missing and git left only white space on stderr
C20_Witness ==
    /\ MissingFileCall
    /\ HasGitDir(call.repo_path)
    /\ call.file_path = "missing.txt" /\ call.ref = "HEAD"
    /\ call.stderr = <<" ", NL>>
    /\ result.val.error = <<"git show failed">>

\* a call of git_recent_commits whose history query ran; call.logged holds the commits
\* the query produced, newest first, already cut to max_count by git
RecentCall == call.tool = "git_recent_commits" /\ ~Idle /\ "logged" \in DOMAIN call

CommitSummary(c) == [sha |-> c.sha, author |-> c.author, date |-> c.date, subject |-> c.subject]

\* C21: git_recent_commits returns exactly one CommitSummary {sha, author, date,
\* subject} per commit the history query produced, in the query's order, at most
\* max_count of them, the empty list when the window holds no commit, and every
\* subject intact.
C21_OneSummaryPerCommit ==
    RecentCall =>
        /\ result.kind = "return"
        /\ Len(result.val) <= call.max_count
        /\ result.val = [i \in 1..Len(call.logged) |-> CommitSummary(call.logged[i])]

\* the positions of the items of a listing of issues that are issues: objects that
\* carry no pull_request field
RECURSIVE IssuePositions(_, _)
IssuePositions(items, i) ==
    IF i > Len(items) THEN <<>>
    ELSE (IF items[i] = "issue" THEN <<i>> ELSE <<>>) \o IssuePositions(items, i + 1)

\* C22: github_recent_issues returns, in response order, exactly the first max_count
\* items of the response that carry no pull_request field; an item carrying the field
\* never appears in the result; and the call leaves the analyzed-PR set as it was.
C22_IssuesOnlyCutAtMaximum ==
    [][(call'.tool = "github_recent_issues" /\ call'.answer.kind = "list") =>
           /\ result'.kind = "return"
           /\ [i \in 1..Len(result'.val) |-> result'.val[i].number[1]]
                  = Take(IssuePositions(call'.answer.items, 1), call'.max_count)
           /\ \A i \in 1..Len(result'.val) :
                  call'.answer.items[result'.val[i].number[1]] # "pull"
           /\ ANALYZED_PRS' = ANALYZED_PRS
      ]_vars

\* a call of github_fetch_pr or github_fetch_issue that returned the fetched record
FetchedCall(tool) == call.tool = tool /\ Returns /\ "item" \in DOMAIN call

\* the names of the labels that are objects, in order
RECURSIVE NamesOf(_)
NamesOf(labels) ==
    IF labels = <<>> THEN <<>>
    ELSE (IF Head(labels) \in {"bug", "security"} THEN <<Head(labels)>> ELSE <<>>)
             \o NamesOf(Tail(labels))

\* C23: the success record of github_fetch_pr includes a labels field that lists, in
\* order, the names of the labels of the fetched pull request.
C23_FetchedPrCarriesLabels ==
    FetchedCall("github_fetch_pr") =>
        /\ "labels" \in DOMAIN result.val
        /\ result.val.labels = NamesOf(call.item.labels)

\* the body the API answered with, the empty text when it is absent or null
ResponseBody == IF call.item.body = None THEN <<>> ELSE call.item.body[1]

\* C25: github_fetch_issue and github_fetch_pr return as body exactly the first 12000
\* characters of the response body: the whole body when it is shorter, the empty text
\* when it is absent or null; so the body is never longer than 12000.
C25_BodyIsFirstCharacters ==
    (FetchedCall("github_fetch_issue") \/ FetchedCall("github_fetch_pr")) =>
        /\ Len(result.val.body) <= 12000
        /\ Len(result.val.body) = (IF Len(ResponseBody) < 12000 THEN Len(ResponseBody) ELSE 12000)
        /\ result.val.body = SubSeq(ResponseBody, 1, Len(result.val.body))

\* a pull request whose body of 12001 characters comes back 12000 long
C25_Witness ==
    /\ FetchedCall("github_fetch_pr")
    /\ Len(ResponseBody) = 12001
    /\ Len(result.val.body) = 12000

\* a call of github_fetch_pr_comments
CommentsCall == call.tool = "github_fetch_pr_comments" /\ ~Idle

\* the request of a stream failed
StreamFailed ==
    call.review.kind = "error" \/ ("issue" \in DOMAIN call /\ call.issue.kind = "error")

\* C24: github_fetch_pr_comments returns one record per comment of both streams of the
\* pull request: every review comment carries its path and line, every issue-style
\* comment has path and line null, every body is at most 4000 characters, and a
\* failed request yields an error record instead of raising.
C24_BothStreamsOneRecordEach ==
    CommentsCall =>
        /\ result.kind = "return"
        /\ StreamFailed => HasErrorRecord(result.val)
        /\ ~StreamFailed =>
               LET nReview == Len(call.review.items)
                   nIssue == Len(call.issue.items)
               IN  /\ Len(result.val) = nReview + nIssue
                   /\ \A i \in 1..nReview :
                          result.val[i].path # None /\ result.val[i].line # None
                   /\ \A i \in (nReview + 1)..(nReview + nIssue) :
                          result.val[i].path = None /\ result.val[i].line = None
                   /\ \A i \in 1..Len(result.val) : Len(result.val[i].body) <= 4000

\* one review comment with an over-long body and one issue-style comment
C24_Witness ==
    /\ CommentsCall /\ ~StreamFailed
    /\ call.review.items = <<"long">> /\ call.issue.items = <<"short">>
    /\ Len(result.val) = 2
    /\ Len(result.val[1].body) = 4000
    /\ result.val[2].path = None

\* a call of ast_grep with max_matches >= 1
AstCall == call.tool = "ast_grep" /\ ~Idle /\ call.max_matches >= 1

\* the call returned exactly one error record
OneErrorRecord == result.kind = "return" /\ IsErrorList(result.val)

\* C26: ast_grep with max_matches >= 1 does not raise: when neither binary is found
\* it returns exactly one error record and starts no subprocess; when the binary
\* exits non-zero with no output, or its output is no parseable JSON, it returns
\* exactly one error record.
C26_AstGrepDegrades ==
    AstCall =>
        /\ call.bin_path = "" => (OneErrorRecord /\ subprocs = <<>>)
        /\ (call.bin_path # "" /\ call.returncode # 0 /\ call.stdout = "") => OneErrorRecord
        /\ (call.bin_path # "" /\ call.stdout \in {"", "malformed"}) => OneErrorRecord

\* the binary exits 0 and prints something that is no JSON
C26_Witness ==
    /\ AstCall
    /\ call.bin_path = "sg" /\ call.returncode = 0 /\ call.stdout = "malformed"
    /\ OneErrorRecord
    /\ subprocs = <<"sg">>

\* a call of git_github_repo in which reading the URL of the remote failed: the path
\* is no repository, or git exited non-zero
RemoteReadFailed ==
    /\ call.tool = "git_github_repo" /\ ~Idle
    /\ ~HasGitDir(call.repo_path) \/ call.exit # 0

\* C27: git_github_repo never raises, and whenever reading the URL of the remote
\* fails it returns an error record whose text names the requested remote, and no
\* owner/repo pair.
C27_RemoteFailureNamesRemote ==
    /\ (call.tool = "git_github_repo" /\ ~Idle) => result.kind = "return"
    /\ RemoteReadFailed =>
           /\ "error" \in DOMAIN result.val
           /\ call.remote \in Elems(result.val.error)
           /\ "owner" \notin DOMAIN result.val /\ "repo" \notin DOMAIN result.val

\* the remote "upstream" does not exist in a valid repository
C27_Witness ==
    /\ RemoteReadFailed
    /\ HasGitDir(call.repo_path) /\ call.remote = "upstream" /\ call.exit = 2
    /\ subprocs = <<"remote">>
    /\ "upstream" \in Elems(result.val.error)

\* a text without its final newlines
RECURSIVE Chomp(_)
Chomp(t) == IF t # <<>> /\ t[Len(t)] = NL THEN Chomp(SubSeq(t, 1, Len(t) - 1)) ELSE t

\* C28: git_show_commit keeps the message body and the file list apart: for a commit
\* whose body spans several lines, lines holding tabs included, the body field is the
\* entire body text and files holds only the status entries of the commit, never an
\* entry made from a line of the body.
C28_BodyAndFilesApart ==
    (call.tool = "git_show_commit" /\ Returns) =>
        LET c == CommitObj(Resolve(call.sha))
        IN  /\ Chomp(result.val.body) = Chomp(c.body)
            /\ result.val.files = c.files

\* the triples of the records a call of github_recent_prs returned
ReturnedPrs(c, r) ==
    IF IsErrorList(r.val) THEN {}
    ELSE {<<c.owner, c.repo, r.val[i].number[1]>> : i \in 1..Len(r.val)}

\* C30: in both modes a call of github_recent_prs adds to the analyzed-PR set exactly
\* the pull requests of the records it returns, and a call that returns an error
\* record adds nothing to the set.
C30_SetFollowsReturnedRecords ==
    [][(call'.tool = "github_recent_prs" /\ result'.kind = "return") =>
           ANALYZED_PRS' = ANALYZED_PRS \cup ReturnedPrs(call', result')
      ]_vars

\* every call on a worker thread has finished
AllFinished == \A t \in Threads : threads[t] = NoJob

\* C29: under any interleaving of tool calls that run at the same time and record
\* commits or pull requests, no recorded key is lost and none is counted twice: once
\* all calls have finished each count is the number of distinct keys recorded since
\* the last reset, and a count read at any moment is never more than the number of
\* distinct keys recorded so far.
C29_NoKeyLostOrCountedTwice ==
    /\ get_analyzed_commit_count <= Cardinality(seenCommits)
    /\ get_analyzed_pr_count <= Cardinality(seenPRs)
    /\ AllFinished =>
           /\ get_analyzed_commit_count = Cardinality(seenCommits)
           /\ get_analyzed_pr_count = Cardinality(seenPRs)

\* two calls ran over the same range 1..2 and both finished, after at least one
\* recording of each pull request; the count is 2
C29_Witness ==
    /\ AllFinished
    /\ seenPRs = {<<Owner, Repo, 1>>, <<Owner, Repo, 2>>}
    /\ seenCommits = {<<"c2">>}
    /\ get_analyzed_pr_count = 2
    /\ get_analyzed_commit_count = 1

====
